---- MODULE Spec2Model ----
(***************************************************************************)
(* Model of _tmp_patch.py: a script that reads ENDPOINT_TRACKING_SHEET.md, *)
(* finds a literal needle, splices table rows in after it and writes the   *)
(* file back.                                                              *)
(*                                                                         *)
(* A Python str is a sequence of code points (integers); the file on disk  *)
(* is a sequence of bytes (0..255).  Path.read_text / Path.write_text are  *)
(* modelled with their UTF-8 codec and their text-mode newline handling.   *)
(* Python offsets are 0-based, TLA+ sequences are 1-based: text[k] in      *)
(* Python is text[k+1] here.                                               *)
(***************************************************************************)
EXTENDS Integers, Sequences, FiniteSets

(***************************************************************************)
(* Bounds of the model.                                                    *)
(***************************************************************************)
\* a document on disk is a concatenation of at most MaxChunks chunks
MaxChunks == 3
\* the script is invoked at most MaxRuns times on the same file
MaxRuns == 2

(***************************************************************************)
(* Characters and literals of the script.                                  *)
(***************************************************************************)
LF == 10
CR == 13

\* "| `/admin/achievements/unlock` | POST | achievements.js |"
needle ==
  <<124, 32, 96, 47, 97, 100, 109, 105, 110, 47, 97, 99, 104, 105, 101, 118,
    101, 109, 101, 110, 116, 115, 47, 117, 110, 108, 111, 99, 107, 96, 32, 124,
    32, 80, 79, 83, 84, 32, 124, 32, 97, 99, 104, 105, 101, 118, 101, 109,
    101, 110, 116, 115, 46, 106, 115, 32, 124>>

\* "| `/admin/achievements/user/:userId` | GET | achievements.js | <U+00D0>Y\"<U+00F5>
\*  | Jan 2026 | Added: fetch achievements for a specific user |\n"
insert ==
  <<124, 32, 96, 47, 97, 100, 109, 105, 110, 47, 97, 99, 104, 105, 101, 118,
    101, 109, 101, 110, 116, 115, 47, 117, 115, 101, 114, 47, 58, 117, 115, 101,
    114, 73, 100, 96, 32, 124, 32, 71, 69, 84, 32, 124, 32, 97, 99, 104,
    105, 101, 118, 101, 109, 101, 110, 116, 115, 46, 106, 115, 32, 124, 32, 208,
    89, 34, 245, 32, 124, 32, 74, 97, 110, 32, 50, 48, 50, 54, 32, 124,
    32, 65, 100, 100, 101, 100, 58, 32, 102, 101, 116, 99, 104, 32, 97, 99,
    104, 105, 101, 118, 101, 109, 101, 110, 116, 115, 32, 102, 111, 114, 32, 97,
    32, 115, 112, 101, 99, 105, 102, 105, 99, 32, 117, 115, 101, 114, 32, 124,
    10>>

\* " <U+0192>o. | Dec 2025 | - |\n", the unnamed literal of the splice
StatusCells ==
  <<32, 402, 111, 46, 32, 124, 32, 68, 101, 99, 32, 50, 48, 50, 53, 32,
    124, 32, 45, 32, 124, 10>>

\* everything the splice puts between the two slices of the old text
Payload == StatusCells \o insert

\* 'needle not found'
NeedleNotFoundMsg ==
  <<110, 101, 101, 100, 108, 101, 32, 110, 111, 116, 32, 102, 111, 117, 110, 100>>

\* 'updated tracking sheet'
UpdatedMsg ==
  <<117, 112, 100, 97, 116, 101, 100, 32, 116, 114, 97, 99, 107, 105, 110, 103,
    32, 115, 104, 101, 101, 116>>

\* the uncaught exception read_text raises on bytes that are not UTF-8
UnicodeDecodeErrorMsg ==
  <<85, 110, 105, 99, 111, 100, 101, 68, 101, 99, 111, 100, 101, 69, 114, 114,
    111, 114>>

(***************************************************************************)
(* Python's str operations.                                                *)
(***************************************************************************)
Min(a, b) == IF a < b THEN a ELSE b
Max(a, b) == IF a > b THEN a ELSE b

\* s[lo:hi] with Python's rules: a negative offset counts from the end and
\* both offsets are clamped to 0..len(s)
PySlice(s, lo, hi) ==
  LET n == Len(s)
      a == IF lo < 0 THEN Max(lo + n, 0) ELSE Min(lo, n)
      b == IF hi < 0 THEN Max(hi + n, 0) ELSE Min(hi, n)
  IN  SubSeq(s, a + 1, b)

\* s[k:]
PySliceFrom(s, lo) == PySlice(s, lo, Len(s))

\* s.find(sub): the lowest 0-based offset at which sub occurs in s, else -1
Find(s, sub) ==
  LET hits == {i \in 0..(Len(s) - Len(sub)) : SubSeq(s, i + 1, i + Len(sub)) = sub}
  IN  IF hits = {} THEN -1 ELSE CHOOSE i \in hits : \A j \in hits : i <= j

\* a variant of the splice whose second slice starts one offset later
SpliceDropTwo(t, i) ==
  PySlice(t, 0, i + Len(needle)) \o StatusCells \o insert
    \o PySliceFrom(t, i + Len(needle) + 2)

\* a variant of the splice whose second slice starts at idx+len(needle)-1
SpliceRepeatLast(t, i) ==
  PySlice(t, 0, i + Len(needle)) \o StatusCells \o insert
    \o PySliceFrom(t, i + Len(needle) - 1)

\* text[:idx+len(needle)] + " ... |\n" + insert + text[idx+len(needle)+1:]
Splice(t, i) ==
  PySlice(t, 0, i + Len(needle)) \o StatusCells \o insert
    \o PySliceFrom(t, i + Len(needle) + 1)

(***************************************************************************)
(* The UTF-8 codec (encoding='utf-8', errors strict).                      *)
(***************************************************************************)
IsCont(b) == b >= 128 /\ b <= 191

\* the length of the sequence a lead byte starts, 0 for a byte that starts none
SeqLen(b) ==
  IF b < 128 THEN 1
  ELSE IF b >= 194 /\ b <= 223 THEN 2
  ELSE IF b >= 224 /\ b <= 239 THEN 3
  ELSE IF b >= 240 /\ b <= 244 THEN 4
  ELSE 0

\* the second byte's range, which rules out overlong forms, surrogates and
\* code points above U+10FFFF
SecondOk(lead, b) ==
  IF lead = 224 THEN b >= 160 /\ b <= 191
  ELSE IF lead = 237 THEN b >= 128 /\ b <= 159
  ELSE IF lead = 240 THEN b >= 144 /\ b <= 191
  ELSE IF lead = 244 THEN b >= 128 /\ b <= 143
  ELSE IsCont(b)

\* whether a well-formed sequence starts at byte i of bs
WellFormedAt(bs, i) ==
  LET n == SeqLen(bs[i])
  IN  /\ n > 0
      /\ i + n - 1 <= Len(bs)
      /\ n > 1 => SecondOk(bs[i], bs[i + 1])
      /\ \A k \in 2..(n - 1) : IsCont(bs[i + k])
      /\ i + n <= Len(bs) => ~IsCont(bs[i + n])

IsUtf8(bs) ==
  /\ Len(bs) > 0 => ~IsCont(bs[1])
  /\ \A i \in 1..Len(bs) : IsCont(bs[i]) \/ WellFormedAt(bs, i)

\* the code point of the well-formed sequence that starts at byte i
CodePointAt(bs, i) ==
  LET b == bs[i]
      n == SeqLen(b)
  IN  IF n = 1 THEN b
      ELSE IF n = 2 THEN (b - 192) * 64 + (bs[i + 1] - 128)
      ELSE IF n = 3 THEN (b - 224) * 4096 + (bs[i + 1] - 128) * 64 + (bs[i + 2] - 128)
      ELSE (b - 240) * 262144 + (bs[i + 1] - 128) * 4096
             + (bs[i + 2] - 128) * 64 + (bs[i + 3] - 128)

\* -1 marks a position that yields no element
Kept(x) == x >= 0

\* bytes.decode('utf-8') of well-formed bytes: one code point per lead byte
Utf8Decode(bs) ==
  SelectSeq([i \in 1..Len(bs) |-> IF IsCont(bs[i]) THEN -1 ELSE CodePointAt(bs, i)],
            Kept)

\* the number of bytes a code point encodes to
Utf8Width(c) == IF c < 128 THEN 1 ELSE IF c < 2048 THEN 2 ELSE IF c < 65536 THEN 3 ELSE 4

\* byte k (0-based) of the encoding of code point c, -1 past its width
Utf8Byte(c, k) ==
  LET w == Utf8Width(c)
  IN  IF k >= w THEN -1
      ELSE IF w = 1 THEN c
      ELSE IF k = 0 THEN
             (IF w = 2 THEN 192 + (c \div 64)
              ELSE IF w = 3 THEN 224 + (c \div 4096)
              ELSE 240 + (c \div 262144))
      ELSE LET shift == w - 1 - k
               unit == IF shift = 0 THEN 1 ELSE IF shift = 1 THEN 64 ELSE 4096
           IN  128 + ((c \div unit) % 64)

\* str.encode('utf-8')
Utf8Encode(t) ==
  SelectSeq([j \in 1..(4 * Len(t)) |-> Utf8Byte(t[(j - 1) \div 4 + 1], (j - 1) % 4)],
            Kept)

(***************************************************************************)
(* Text-mode newline handling of open() with newline=None.                 *)
(***************************************************************************)
\* on reading, "\r\n" and a lone "\r" both become "\n"
UniversalNewlines(t) ==
  SelectSeq([i \in 1..Len(t) |->
               IF t[i] = CR THEN LF
               ELSE IF t[i] = LF /\ i > 1 /\ t[i - 1] = CR THEN -1
               ELSE t[i]],
            Kept)

\* on writing, each "\n" becomes os.linesep
TranslateNewlines(t, sep) ==
  SelectSeq([j \in 1..(2 * Len(t)) |->
               LET c == t[(j - 1) \div 2 + 1]
                   k == (j - 1) % 2
               IN  IF c = LF
                     THEN (IF k < Len(sep) THEN sep[k + 1] ELSE -1)
                     ELSE (IF k = 0 THEN c ELSE -1)],
            Kept)

\* the bytes write_text(text, encoding='utf-8') puts in the file
FileBytes(t, sep) == Utf8Encode(TranslateNewlines(t, sep))

(***************************************************************************)
(* The state: the file, the platform, and one interpreter process running  *)
(* the script.                                                             *)
(***************************************************************************)
VARIABLES
  file,      \* bytes of ENDPOINT_TRACKING_SHEET.md on disk
  linesep,   \* os.linesep of the platform
  pc,        \* the line the process is about to execute, or how it ended
  text,      \* the script's variable text
  idx,       \* the script's variable idx
  stdout,    \* what the process has printed
  stderr,    \* what the process has written to standard error
  exitCode,  \* the process's exit status, -1 while it runs
  runs,      \* invocations of the script so far
  writes,    \* write_text calls of this invocation
  buffer,    \* encoded bytes the open file object holds, not yet on disk
  orig,      \* history: the file's bytes when this invocation started
  text0,     \* history: text as read_text returned it in this invocation
  prev       \* history: <<idx, text>> at the end of the previous successful run

vars == <<file, linesep, pc, text, idx, stdout, stderr, exitCode, runs, writes,
          buffer, orig, text0, prev>>

\* the chunks documents are built from: the needle, a line feed, a carriage
\* return, a two-byte character, and a byte that is not UTF-8
Chunks == {Utf8Encode(needle), <<LF>>, <<CR>>, Utf8Encode(<<402>>), <<255>>}

RECURSIVE Documents(_)
Documents(n) ==
  IF n = 0 THEN {<<>>}
  ELSE LET shorter == Documents(n - 1)
       IN  shorter \cup {d \o c : d \in shorter, c \in Chunks}

LineSeps == {<<LF>>, <<CR, LF>>}

Running == {"l3", "l5", "l6", "l9", "l10", "l10w", "l11"}

Init ==
  /\ file \in Documents(MaxChunks)
  /\ linesep \in LineSeps
  /\ pc = "l3"
  /\ text = <<>>
  /\ idx = -1
  /\ stdout = <<>>
  /\ stderr = <<>>
  /\ exitCode = -1
  /\ runs = 1
  /\ writes = 0
  /\ buffer = <<>>
  /\ orig = file
  /\ text0 = <<>>
  /\ prev = <<>>

\* line 3: text = p.read_text(encoding='utf-8'); bytes that are not UTF-8
\* raise UnicodeDecodeError, which nothing catches
ReadText ==
  /\ pc = "l3"
  /\ IF IsUtf8(file)
       THEN /\ text' = UniversalNewlines(Utf8Decode(file))
            /\ text0' = text'
            /\ pc' = "l5"
            /\ UNCHANGED <<stderr, exitCode>>
       ELSE /\ stderr' = stderr \o UnicodeDecodeErrorMsg \o <<LF>>
            /\ exitCode' = 1
            /\ pc' = "exited"
            /\ UNCHANGED <<text, text0>>
  /\ UNCHANGED <<file, linesep, idx, stdout, runs, writes, buffer, orig, prev>>

\* lines 4-5: idx = text.find(needle)
FindNeedle ==
  /\ pc = "l5"
  /\ idx' = Find(text, needle)
  /\ pc' = "l6"
  /\ UNCHANGED <<file, linesep, text, stdout, stderr, exitCode, runs, writes,
                 buffer, orig, text0, prev>>

\* a variant of lines 6-7 that reports the missing needle and carries on
CheckFoundNoExit ==
  /\ pc = "l6"
  /\ stderr' = IF idx = -1 THEN stderr \o NeedleNotFoundMsg \o <<LF>> ELSE stderr
  /\ pc' = "l9"
  /\ UNCHANGED <<file, linesep, text, idx, stdout, exitCode, runs, writes, buffer,
                 orig, text0, prev>>

\* a variant of lines 6-7 with the test inverted: if idx != -1: raise ...
CheckFoundInverted ==
  /\ pc = "l6"
  /\ IF idx # -1
       THEN /\ stderr' = stderr \o NeedleNotFoundMsg \o <<LF>>
            /\ exitCode' = 1
            /\ pc' = "exited"
       ELSE /\ pc' = "l9"
            /\ UNCHANGED <<stderr, exitCode>>
  /\ UNCHANGED <<file, linesep, text, idx, stdout, runs, writes, buffer, orig, text0, prev>>

\* lines 6-7: if idx == -1: raise SystemExit('needle not found')
CheckFound ==
  /\ pc = "l6"
  /\ IF idx = -1
       THEN /\ stderr' = stderr \o NeedleNotFoundMsg \o <<LF>>
            /\ exitCode' = 1
            /\ pc' = "exited"
       ELSE /\ pc' = "l9"
            /\ UNCHANGED <<stderr, exitCode>>
  /\ UNCHANGED <<file, linesep, text, idx, stdout, runs, writes, buffer, orig, text0, prev>>

\* lines 8-9: text = text[:idx+len(needle)] + ... + insert + text[idx+len(needle)+1:]
SpliceText ==
  /\ pc = "l9"
  /\ text' = Splice(text, idx)
  /\ pc' = "l10"
  /\ UNCHANGED <<file, linesep, idx, stdout, stderr, exitCode, runs, writes,
                 buffer, orig, text0, prev>>

\* line 10, first half: write_text opens the file with mode 'w', which
\* truncates it, and f.write(text) hands the encoded text to the file object
WriteOpen ==
  /\ pc = "l10"
  /\ file' = <<>>
  /\ buffer' = FileBytes(text, linesep)
  /\ writes' = writes + 1
  /\ pc' = "l10w"
  /\ UNCHANGED <<linesep, text, idx, stdout, stderr, exitCode, runs, orig, text0, prev>>

\* line 10, second half: leaving the with block closes the file, which
\* flushes the buffered bytes to it
WriteData ==
  /\ pc = "l10w"
  /\ file' = buffer
  /\ buffer' = <<>>
  /\ pc' = "l11"
  /\ UNCHANGED <<linesep, text, idx, stdout, stderr, exitCode, runs, writes,
                 orig, text0, prev>>

\* line 11: print('updated tracking sheet'), then the script ends
PrintUpdated ==
  /\ pc = "l11"
  /\ stdout' = stdout \o UpdatedMsg \o <<LF>>
  /\ exitCode' = 0
  /\ pc' = "exited"
  /\ UNCHANGED <<file, linesep, text, idx, stderr, runs, writes, buffer, orig, text0, prev>>

\* the process is killed or the machine stops: nothing more is printed; while
\* the file is open for writing, any leading part of the buffered bytes may
\* have reached the disk
Crash ==
  /\ pc \in Running
  /\ pc' = "crashed"
  /\ IF pc = "l10w"
       THEN \E n \in 0..Len(buffer) : file' = SubSeq(buffer, 1, n)
       ELSE UNCHANGED file
  /\ UNCHANGED <<linesep, text, idx, stdout, stderr, exitCode, runs, writes,
                 buffer, orig, text0, prev>>

\* the script is invoked again on the file the last invocation left
Invoke ==
  /\ pc = "exited"
  /\ runs < MaxRuns
  /\ runs' = runs + 1
  /\ pc' = "l3"
  /\ prev' = IF exitCode = 0 THEN <<idx, text>> ELSE <<>>
  /\ text' = <<>>
  /\ text0' = <<>>
  /\ idx' = -1
  /\ stdout' = <<>>
  /\ stderr' = <<>>
  /\ exitCode' = -1
  /\ writes' = 0
  /\ buffer' = <<>>
  /\ orig' = file
  /\ UNCHANGED <<file, linesep>>

Next ==
  \/ ReadText
  \/ FindNeedle
  \/ CheckFound
  \/ SpliceText
  \/ WriteOpen
  \/ WriteData
  \/ PrintUpdated
  \/ Crash
  \/ Invoke

Spec == Init /\ [][Next]_vars

(***************************************************************************)
(* Vocabulary of the properties, stated without the script's own find.     *)
(***************************************************************************)
\* the needle occurs in t at 0-based offset i
Occurs(t, i) == \A k \in 1..Len(needle) : t[i + k] = needle[k]

\* the offsets at which the needle occurs in t
Offsets(t) == {i \in 0..(Len(t) - Len(needle)) : Occurs(t, i)}

HasAnchor(t) == \E i \in 0..(Len(t) - Len(needle)) : Occurs(t, i)

\* the offset of the first occurrence
FirstOffset(t) ==
  CHOOSE i \in 0..(Len(t) - Len(needle)) :
    Occurs(t, i) /\ \A j \in 0..(i - 1) : ~Occurs(t, j)

\* the offset just past the first occurrence
AnchorEnd(t) == FirstOffset(t) + Len(needle)

\* the run ended with exit status 0
Succeeded == pc = "exited" /\ exitCode = 0

\* line 9 has been executed in this run and the process is alive or ended well
Spliced == pc \in {"l10", "l10w", "l11"} \/ Succeeded

\* read_text has returned in this run: text0 is the document text
HasRead == pc # "l3" /\ IsUtf8(orig)

(***************************************************************************)
(* C1: for every document text that contains the anchor, a successful run  *)
(* produces exactly the text up to and including the first anchor, then    *)
(* the payload, then all of the original text that followed the anchor,    *)
(* its first character included.                                           *)
(***************************************************************************)
C1_SplicePreservesFollowingText ==
  (Succeeded /\ HasAnchor(text0)) =>
     text = PySlice(text0, 0, AnchorEnd(text0)) \o Payload
              \o PySliceFrom(text0, AnchorEnd(text0))

(***************************************************************************)
(* C3: for every document text that contains the anchor exactly once, the  *)
(* text a successful run writes is len(document) + len(payload) long.      *)
(***************************************************************************)
C3_LengthGrowsByPayload ==
  (Succeeded /\ Cardinality(Offsets(text0)) = 1) =>
     Len(text) = Len(text0) + Len(Payload)

(***************************************************************************)
(* C2: for every document text that does not contain the anchor, the run   *)
(* fails, no write to the resource is ever performed, and the resource is  *)
(* byte for byte what it was before the run.                               *)
(***************************************************************************)
C2_AbsentAnchorFailsWithoutWrite ==
  (~HasAnchor(text0) /\ HasRead) =>
     /\ writes = 0
     /\ file = orig
     /\ buffer = <<>>
     /\ pc \in {"l5", "l6", "exited", "crashed"}
     /\ pc = "exited" => exitCode # 0 /\ stdout = <<>>

C2_Witness ==
  /\ pc = "exited"
  /\ exitCode = 1
  /\ HasRead
  /\ Len(text0) > 0
  /\ ~HasAnchor(text0)
  /\ file = orig

(***************************************************************************)
(* C4: a second run on the output of a first successful run finds the same *)
(* anchor at the same offset and inserts the payload again, so that after  *)
(* two runs two complete copies of the payload follow the anchor.          *)
(***************************************************************************)
C4_SecondRunLeavesTwoPayloads ==
  (Succeeded /\ prev # <<>>) =>
     /\ idx = prev[1]
     /\ PySlice(text, idx + Len(needle), idx + Len(needle) + 2 * Len(Payload))
          = Payload \o Payload

(***************************************************************************)
(* C5: when the anchor occurs more than once, the payload is inserted only *)
(* after the first occurrence; every later occurrence and the text around  *)
(* it is left as it was.                                                   *)
(***************************************************************************)
C5_LaterOccurrencesUntouched ==
  (Succeeded /\ Cardinality(Offsets(text0)) > 1) =>
     LET k == AnchorEnd(text0)
     IN  /\ PySlice(text, 0, k + Len(Payload)) = PySlice(text0, 0, k) \o Payload
         /\ \A j \in Offsets(text0) : j >= k => (j + Len(Payload)) \in Offsets(text)
         /\ PySliceFrom(text, k + Len(Payload)) = PySliceFrom(text0, k)

(***************************************************************************)
(* C6: in every run the resource is written at most once, and only after   *)
(* the anchor has been found: never on the failure path, never twice.      *)
(***************************************************************************)
C6_AtMostOneWriteAfterFound ==
  /\ writes <= 1
  /\ writes = 0 => file = orig /\ buffer = <<>>
  /\ writes = 1 => /\ HasAnchor(text0)
                   /\ idx = FirstOffset(text0)
                   /\ pc \in {"l10w", "l11", "exited", "crashed"}
  /\ (pc = "exited" /\ exitCode # 0) => writes = 0

C6_Witness == Succeeded /\ writes = 1 /\ file # orig

(***************************************************************************)
(* C7: every run ends in one of two outcomes: exit code 0 with the success *)
(* message, emitted only after the write has completed; or a non-zero exit *)
(* with an error message that identifies the missing anchor text and no    *)
(* success message.  Stated for the runs that could read the document.     *)
(***************************************************************************)
C7_TwoOutcomes ==
  (pc = "exited" /\ HasRead) =>
     \/ /\ exitCode = 0
        /\ stdout = UpdatedMsg \o <<LF>>
        /\ stderr = <<>>
        /\ writes = 1
        /\ file = FileBytes(text, linesep)
     \/ /\ exitCode # 0
        /\ stdout = <<>>
        /\ \E i \in 0..(Len(stderr) - Len(needle)) :
             SubSeq(stderr, i + 1, i + Len(needle)) = needle

(***************************************************************************)
(* C8: if the run is interrupted at any point during the write step, the   *)
(* resource holds either its complete original content or the complete     *)
(* patched content, never a truncated or half-written one.                 *)
(***************************************************************************)
C8_InterruptedWriteIsAtomic ==
  pc = "crashed" => file = orig \/ (writes = 1 /\ file = FileBytes(text, linesep))

(***************************************************************************)
(* C9: a successful run removes at most one character of the document      *)
(* text, the one at the offset just past the first anchor, whatever it is; *)
(* every other character appears in the output in its original order, and  *)
(* the prefix up to and including the anchor is unchanged.                 *)
(***************************************************************************)
C9_AtMostOneCharacterRemoved ==
  Spliced =>
     LET k == AnchorEnd(text0)
         n == Len(text0)
         p == Len(Payload)
     IN  /\ Len(text) = n + p - (IF k < n THEN 1 ELSE 0)
         /\ \A j \in 1..k : text[j] = text0[j]
         /\ \A j \in 1..p : text[k + j] = Payload[j]
         /\ \A j \in (k + 2)..n : text[j + p - 1] = text0[j]

\* a run succeeded that removed a character which is no line terminator
C9_Witness ==
  /\ Succeeded
  /\ AnchorEnd(text0) < Len(text0)
  /\ text0[AnchorEnd(text0) + 1] \notin {LF, CR}
  /\ Len(text) = Len(text0) + Len(Payload) - 1

(***************************************************************************)
(* C10: when the first anchor occurrence ends exactly at the end of the    *)
(* document, the run still succeeds and the written text is the whole      *)
(* original document followed by the payload: no character is removed and  *)
(* nothing fails.                                                          *)
(***************************************************************************)
C10_AnchorAtEndAppendsPayload ==
  (HasAnchor(text0) /\ AnchorEnd(text0) = Len(text0)) =>
     /\ exitCode \in {-1, 0}
     /\ stderr = <<>>
     /\ Spliced => text = text0 \o Payload
     /\ pc = "l10w" => buffer = FileBytes(text0 \o Payload, linesep)
     /\ pc \in {"l11", "exited"} => file = FileBytes(text0 \o Payload, linesep)

C10_Witness ==
  /\ Succeeded
  /\ HasAnchor(text0)
  /\ AnchorEnd(text0) = Len(text0)
  /\ text = text0 \o Payload
  /\ file = FileBytes(text, linesep)

====
